---- MODULE Spec2Model ----
(***************************************************************************)
(* AI Tools Blog API (src/main.py): the document store with its three      *)
(* collections, the seed handler as a process of store operations, and the *)
(* read handlers (/test, /sectors, /sectors/{slug}, /search).              *)
(*                                                                         *)
(* A collection is the sequence of its documents in insertion (natural)    *)
(* order.  Text is TLA+ strings; TLC evaluates Len and SubSeq on them, so  *)
(* pattern matching is computed character by character.  Ratings are kept *)
(* in tenths (4.7 is 47).                                                  *)
(*                                                                         *)
(* seed_content is a sequence of store operations: find, then the insert   *)
(* loop, per collection.  Each find is one step; an insert loop is one     *)
(* step whose input is the number of create_document calls that succeed    *)
(* before one raises (all of them when none does).  The read handlers are  *)
(* one step each.                                                          *)
(***************************************************************************)
EXTENDS Integers, Sequences, FiniteSets, TLC

VARIABLES db, store, pc, existing, resp, nfail

vars == <<db, store, pc, existing, resp, nfail>>

(* ------------------------------ bounds -------------------------------- *)

\* insert loops of seed_content that may stop part-way in one behaviour
MaxFail == 1

\* collections of the database other than the three of this application
MaxOther == 8

\* concurrent POST /seed requests
Procs == {1, 2}

(* ----------------------- the fixed seed records ----------------------- *)

\* src/main.py:72-78
SeedSectors ==
  << [name |-> "Marketing", slug |-> "marketing", description |-> "Campaigns, content, SEO"],
     [name |-> "Sales", slug |-> "sales", description |-> "Prospecting and enablement"],
     [name |-> "Customer Support", slug |-> "support", description |-> "Helpdesk and chatbots"],
     [name |-> "Software Development", slug |-> "engineering", description |-> "Code assistants and DevOps"],
     [name |-> "Design", slug |-> "design", description |-> "Images, video, UI/UX"] >>

Tool(name, sector_slug, summary, strengths, limitations, website, pricing, rating) ==
  [name |-> name, sector_slug |-> sector_slug, summary |-> summary,
   strengths |-> strengths, limitations |-> limitations, website |-> website,
   pricing |-> pricing, rating |-> rating]

\* src/main.py:84-95
SeedTools ==
  << Tool("Jasper", "marketing", "AI copy for ads and blogs", <<"Templates", "Brand voice">>, <<"Price">>, "https://www.jasper.ai", "From $39/mo", 42),
     Tool("HubSpot AI", "marketing", "AI features inside HubSpot", <<"Integrated">>, <<"Ecosystem lock-in">>, "https://www.hubspot.com", "Tiered", 40),
     Tool("Apollo AI", "sales", "Prospecting with AI signals", <<"Data">>, <<"Learning curve">>, "https://www.apollo.io", "Freemium", 43),
     Tool("Gong", "sales", "Revenue intelligence", <<"Call analysis">>, <<"Enterprise pricing">>, "https://www.gong.io", "Quote-based", 45),
     Tool("Intercom Fin", "support", "AI chatbot for support", <<"Answers from docs">>, <<"Requires good KB">>, "https://www.intercom.com", "Add-on", 44),
     Tool("Zendesk AI", "support", "AI assist in helpdesk", <<"Workflows">>, <<"Add-on cost">>, "https://www.zendesk.com", "Add-on", 41),
     Tool("GitHub Copilot", "engineering", "Code completion and chat", <<"IDE integration">>, <<"Best with popular langs">>, "https://github.com/features/copilot", "$10-$19/mo", 47),
     Tool("OpenAI o1", "engineering", "Reasoning models for complex tasks", <<"Reasoning">>, <<"Cost">>, "https://openai.com", "Usage-based", 46),
     Tool("Midjourney", "design", "Generative images", <<"Quality">>, <<"Discord UX">>, "https://www.midjourney.com", "From $10/mo", 46),
     Tool("Figma AI", "design", "Generate and edit UI", <<"Design-native">>, <<"Early features">>, "https://www.figma.com", "Included", 42) >>

\* src/main.py:101-107
SeedComparisons ==
  << [sector_slug |-> "marketing", headline |-> "Best AI Tools for Marketing in 2025", intro |-> "We tested top tools for content, SEO, and campaigns.", top_tools |-> <<"Jasper", "HubSpot AI">>],
     [sector_slug |-> "sales", headline |-> "Top AI Tools for Sales Teams", intro |-> "Prospecting, call analysis, and forecasting.", top_tools |-> <<"Gong", "Apollo AI">>],
     [sector_slug |-> "support", headline |-> "AI for Customer Support", intro |-> "Bots, deflection, and agent assistance.", top_tools |-> <<"Intercom Fin", "Zendesk AI">>],
     [sector_slug |-> "engineering", headline |-> "AI for Software Development", intro |-> "Code completion, reviews, and reasoning.", top_tools |-> <<"GitHub Copilot", "OpenAI o1">>],
     [sector_slug |-> "design", headline |-> "AI for Designers", intro |-> "From ideas to assets.", top_tools |-> <<"Midjourney", "Figma AI">>] >>

\* the collections in the order seed_content visits them
Collections == <<"sector", "tool", "comparison">>

SeedRecords(c) ==
  CASE c = "sector" -> SeedSectors
    [] c = "tool" -> SeedTools
    [] c = "comparison" -> SeedComparisons

(* --------------------------- store operations ------------------------- *)

\* Python's None
None == [_id |-> 0]

\* create_document(collection_name, data): one document appended to the
\* collection; the store gives it an _id no other document of the
\* collection has.
create_document(coll, data) ==
  Append(coll, [_id |-> Len(coll) + 1] @@ data)

RECURSIVE insert_all(_, _, _)
\* for s in sectors: create_document("sector", s), stopped after k calls
insert_all(coll, records, k) ==
  IF k = 0 THEN coll
  ELSE create_document(insert_all(coll, records, k - 1), records[k])

\* collection.find({}): the documents in natural order
find_all(coll) == coll

\* collection.find({field: value}): the matching documents in natural order
find(coll, field, value) == SelectSeq(coll, LAMBDA d : d[field] = value)

\* collection.find_one({field: value}): the first matching document, or None
find_one(coll, field, value) ==
  IF find(coll, field, value) = <<>> THEN None ELSE Head(find(coll, field, value))

\* get_documents(collection_name): every document of the collection
get_documents(coll) == coll

OtherName(i) == "other_" \o ToString(i)

\* db.list_collection_names(): a collection exists once it holds a document
list_collection_names(st, n) ==
  [i \in 1..n |-> OtherName(i)]
    \o SelectSeq(Collections, LAMBDA c : st[c] # <<>>)

(* ------------------------ $regex with $options i ---------------------- *)

UpperCase == "ABCDEFGHIJKLMNOPQRSTUVWXYZ"
LowerCase == "abcdefghijklmnopqrstuvwxyz"

CharAt(s, i) == SubSeq(s, i, i)

\* case folding of the letters
FoldTable ==
  [ch \in {CharAt(UpperCase, i) : i \in 1..Len(UpperCase)} |->
     CharAt(LowerCase, CHOOSE i \in 1..Len(UpperCase) : CharAt(UpperCase, i) = ch)]

\* case folding of one character
Fold(ch) == IF ch \in DOMAIN FoldTable THEN FoldTable[ch] ELSE ch

\* The patterns of the model are made of letters, digits, space and "-",
\* which stand for themselves, of "." (any character) and of "(".  No
\* pattern holds a ")", so a pattern with a "(" opens a group it never
\* closes and the store rejects it.
PatternCompiles(p) == \A j \in 1..Len(p) : CharAt(p, j) # "("

\* one pattern character against one text character, ignoring case
PatternCharMatches(pch, tch) == pch = "." \/ Fold(pch) = Fold(tch)

\* {"$regex": p, "$options": "i"} on a text field: the pattern is searched
\* at every position of the text
regex_matches(p, text) ==
  \E i \in 1..(Len(text) - Len(p) + 1) :
    \A j \in 1..Len(p) : PatternCharMatches(CharAt(p, j), CharAt(text, i + j - 1))

\* q occurs in text as a substring, ignoring case
SubstringIgnoreCase(q, text) ==
  \E i \in 1..(Len(text) - Len(q) + 1) :
    \A j \in 1..Len(q) : Fold(CharAt(q, j)) = Fold(CharAt(text, i + j - 1))

(* ------------------------------ handlers ------------------------------ *)

\* A response: the HTTP status, the payload, and the number of store
\* operations the handler called (seed_content's are steps of their own and
\* are not counted).  `raises` is the store's answer to the handler's first
\* store operation: TRUE when the operation raises.

Response(status, body, ops) == [status |-> status, body |-> body, store_ops |-> ops]

\* HTTPException(status_code, detail)
HTTPException(status, detail, ops) == Response(status, [detail |-> detail], ops)

\* an exception no handler catches: the framework answers 500
Uncaught(ops) == Response(500, [detail |-> "Internal Server Error"], ops)

Min(a, b) == IF a < b THEN a ELSE b

\* collections[:10]
CollectionsCap == 10

\* the list returned whole
SliceAll(s, n) == s

Slice(s, n) == SubSeq(s, 1, Min(n, Len(s)))

read_root == Response(200, [message |-> "AI Tools Blog Backend Running"], 0)

get_schema ==
  Response(200,
    [sector |-> {"name", "slug", "description"},
     tool |-> {"name", "sector_slug", "summary", "strengths", "limitations",
               "website", "pricing", "rating"},
     comparison |-> {"sector_slug", "headline", "intro", "top_tools"}], 0)

\* The environment variables are not part of the state: database_url and
\* database_name are left out of the payload.
test_database(dbv, st, n, raises) ==
  IF dbv
  THEN IF raises
       THEN Response(200, [backend |-> "Running",
                           database |-> "Connected but Error",
                           connection_status |-> "Connected",
                           collections |-> <<>>], 1)
       ELSE Response(200, [backend |-> "Running",
                           database |-> "Connected & Working",
                           connection_status |-> "Connected",
                           collections |-> Slice(list_collection_names(st, n), CollectionsCap)], 1)
  ELSE Response(200, [backend |-> "Running",
                      database |-> "Available but not initialized",
                      connection_status |-> "Not Connected",
                      collections |-> <<>>], 0)

SectorListItem(d) ==
  [id |-> ToString(d._id), name |-> d.name, slug |-> d.slug, description |-> d.description]

\* docs = get_documents("sector") without the test of db: the call on a
\* missing handle raises
list_sectors_unguarded(dbv, st, raises) ==
  IF ~dbv \/ raises THEN Uncaught(IF dbv THEN 1 ELSE 0)
  ELSE LET docs == get_documents(st["sector"])
       IN  Response(200, [i \in 1..Len(docs) |-> SectorListItem(docs[i])], 1)

list_sectors(dbv, st, raises) ==
  IF ~dbv THEN Response(200, <<>>, 0)
  ELSE IF raises THEN Uncaught(1)
  ELSE LET docs == get_documents(st["sector"])
       IN  Response(200, [i \in 1..Len(docs) |-> SectorListItem(docs[i])], 1)

SectorShape(d) == [name |-> d.name, slug |-> d.slug, description |-> d.description]

ToolDetailShape(t) ==
  [name |-> t.name, summary |-> t.summary, strengths |-> t.strengths,
   limitations |-> t.limitations, website |-> t.website, pricing |-> t.pricing,
   rating |-> t.rating]

ComparisonShape(c) ==
  IF c = None THEN None
  ELSE [headline |-> c.headline, intro |-> c.intro, top_tools |-> c.top_tools]

\* not-found also for a sector that has no tools
sector_detail_needs_tools(dbv, st, slug, raises) ==
  IF ~dbv THEN HTTPException(500, "Database not configured", 0)
  ELSE IF raises THEN Uncaught(1)
  ELSE LET sector == find_one(st["sector"], "slug", slug)
           tools == find(st["tool"], "sector_slug", slug)
           comparison == find_one(st["comparison"], "sector_slug", slug)
       IN  IF sector = None \/ tools = <<>> THEN HTTPException(404, "Sector not found", 1)
           ELSE Response(200, [sector |-> SectorShape(sector),
                               tools |-> [i \in 1..Len(tools) |-> ToolDetailShape(tools[i])],
                               comparison |-> ComparisonShape(comparison)], 3)

sector_detail(dbv, st, slug, raises) ==
  IF ~dbv THEN HTTPException(500, "Database not configured", 0)
  ELSE IF raises THEN Uncaught(1)
  ELSE LET sector == find_one(st["sector"], "slug", slug)
       IN  IF sector = None THEN HTTPException(404, "Sector not found", 1)
           ELSE LET tools == find(st["tool"], "sector_slug", slug)
                    comparison == find_one(st["comparison"], "sector_slug", slug)
                IN  Response(200, [sector |-> SectorShape(sector),
                                   tools |-> [i \in 1..Len(tools) |-> ToolDetailShape(tools[i])],
                                   comparison |-> ComparisonShape(comparison)], 3)

ToolSummaryShape(t) ==
  [name |-> t.name, sector_slug |-> t.sector_slug, summary |-> t.summary,
   rating |-> t.rating, website |-> t.website]

\* {"$or": [{"name": pattern}, {"summary": pattern}, {"sector_slug": pattern}]}
SearchFilter(q, t) ==
  \/ regex_matches(q, t.name)
  \/ regex_matches(q, t.summary)
  \/ regex_matches(q, t.sector_slug)

search_tools(dbv, st, q, raises) ==
  IF ~dbv THEN Response(200, [results |-> <<>>], 0)
  ELSE IF raises \/ ~PatternCompiles(q) THEN Uncaught(1)
  ELSE LET tools == SelectSeq(st["tool"], LAMBDA t : SearchFilter(q, t))
       IN  Response(200, [results |-> [i \in 1..Len(tools) |-> ToolSummaryShape(tools[i])]], 1)

(* ---------------------------- state machine --------------------------- *)

\* db:       whether the store handle is configured (db is not None)
\* store:    the three collections
\* pc:       where each POST /seed request stands: idle, about to run the
\*           find of collection c, or about to run the insert loop of c
\* existing: the list the request's find returned (existing_sectors,
\*           existing_tools, existing_comparisons in turn), kept while the
\*           request stands at the insert loop that find decided on
\* resp:     the latest response sent, with the route, its argument and
\*           whether the store was set to raise on the request
\* nfail:    insert loops that stopped part-way so far

Slugs == {"marketing", "design", "does-not-exist"}

\* the numbers of create_document calls of a loop that succeed before one
\* raises; each is less than the length of every record set
FailAfter == {1, 2}

Queries == {"copilot", "xyz-nomatch", "sales", "CHAT", "", ".", "a.i", "("}

EmptyStore == [c \in {"sector", "tool", "comparison"} |-> <<>>]

Idle == [stage |-> "idle", c |-> 0]

Sent(op, arg, raises, r) == [op |-> op, arg |-> arg, raises |-> raises, r |-> r]

Init ==
  /\ db \in BOOLEAN
  /\ store = EmptyStore
  /\ pc = [p \in Procs |-> Idle]
  /\ existing = [p \in Procs |-> <<>>]
  /\ resp = Sent("none", "", FALSE, Response(0, <<>>, 0))
  /\ nfail = 0

\* the emptiness test left out: every request inserts
ShouldSeedAlways(found) == TRUE

\* the test taken as "the collection is not complete yet"
ShouldSeedIncomplete(found) == Len(found) < Len(SeedSectors)

\* if not existing_sectors / existing_tools / existing_comparisons
ShouldSeed(found) == found = <<>>

\* the request p returns or raises: its response is sent, its locals end
Returns(p, raises, r) ==
  /\ pc' = [pc EXCEPT ![p] = Idle]
  /\ existing' = [existing EXCEPT ![p] = <<>>]
  /\ resp' = Sent("seed", p, raises, r)

\* past collection c: on to the next find, or return {"status": "ok"}
Advance(p, c) ==
  IF c < Len(Collections)
  THEN /\ pc' = [pc EXCEPT ![p] = [stage |-> "find", c |-> c + 1]]
       /\ existing' = [existing EXCEPT ![p] = <<>>]
       /\ UNCHANGED resp
  ELSE Returns(p, FALSE, Response(200, [status |-> "ok"], 0))

\* the test of the found list's emptiness and what follows from it
Decide(p, c, found) ==
  /\ IF ShouldSeed(found)
     THEN /\ pc' = [pc EXCEPT ![p] = [stage |-> "insert", c |-> c]]
          /\ existing' = [existing EXCEPT ![p] = found]
          /\ UNCHANGED resp
     ELSE Advance(p, c)
  /\ UNCHANGED <<db, store, nfail>>

\* every collection decided on the sectors found
FindStepSectors(p, c) == Decide(p, c, find_all(store["sector"]))

\* existing = list(db[c].find({})), then the test of its emptiness
FindStep(p, c) == Decide(p, c, find_all(store[Collections[c]]))

\* POST /seed arrives: the db test and the find of the sectors
seed_content(p) ==
  /\ pc[p].stage = "idle"
  /\ IF ~db
     THEN /\ resp' = Sent("seed", p, FALSE, HTTPException(500, "Database not configured", 0))
          /\ UNCHANGED <<db, store, pc, existing, nfail>>
     ELSE FindStep(p, 1)

\* the find of the tools, of the comparisons
seed_content_find(p) ==
  /\ pc[p].stage = "find"
  /\ FindStep(p, pc[p].c)

\* the loop run as one conditional insert: nothing when the collection has
\* been filled since the find
InsertedIfEmpty(coll, records, k) ==
  IF coll = <<>> THEN insert_all(coll, records, k) ELSE coll

\* the loop replacing the collection by the records
InsertedFresh(coll, records, k) == insert_all(<<>>, records, k)

\* the collection after the insert loop made k calls of create_document
Inserted(coll, records, k) == insert_all(coll, records, k)

\* the insert loop of a collection, every create_document succeeding
seed_content_insert(p) ==
  /\ pc[p].stage = "insert"
  /\ LET c == Collections[pc[p].c]
     IN  store' = [store EXCEPT ![c] = Inserted(@, SeedRecords(c), Len(SeedRecords(c)))]
  /\ Advance(p, pc[p].c)
  /\ UNCHANGED <<db, nfail>>

\* a store operation of seed_content raises before the request changed
\* anything in the collection it is at: a find, or the first
\* create_document of a loop; nothing catches it, the request ends in 500
seed_content_raises(p) ==
  /\ db
  /\ pc[p].stage \in {"idle", "find", "insert"}
  /\ Returns(p, TRUE, Uncaught(0))
  /\ UNCHANGED <<db, store, nfail>>

\* a create_document raises after k >= 1 successful ones of the same loop:
\* the k documents stay, the request ends in 500
seed_content_insert_raises(p) ==
  /\ pc[p].stage = "insert"
  /\ nfail < MaxFail
  /\ nfail' = nfail + 1
  /\ LET c == Collections[pc[p].c]
     IN  \E k \in FailAfter :
           store' = [store EXCEPT ![c] = Inserted(@, SeedRecords(c), k)]
  /\ Returns(p, TRUE, Uncaught(0))
  /\ UNCHANGED db

GetRoot ==
  /\ resp' = Sent("root", "", FALSE, read_root)
  /\ UNCHANGED <<db, store, pc, existing, nfail>>

GetSchema ==
  /\ resp' = Sent("schema", "", FALSE, get_schema)
  /\ UNCHANGED <<db, store, pc, existing, nfail>>

GetTest(OtherCounts) ==
  /\ \E n \in OtherCounts, raises \in BOOLEAN :
       resp' = Sent("test", n, raises, test_database(db, store, n, raises))
  /\ UNCHANGED <<db, store, pc, existing, nfail>>

GetSectors ==
  /\ \E raises \in BOOLEAN :
       resp' = Sent("sectors", "", raises, list_sectors(db, store, raises))
  /\ UNCHANGED <<db, store, pc, existing, nfail>>

GetSectorDetail ==
  /\ \E slug \in Slugs, raises \in BOOLEAN :
       resp' = Sent("sector_detail", slug, raises, sector_detail(db, store, slug, raises))
  /\ UNCHANGED <<db, store, pc, existing, nfail>>

PostSearch(Qs) ==
  /\ \E q \in Qs, raises \in BOOLEAN :
       resp' = Sent("search", q, raises, search_tools(db, store, q, raises))
  /\ UNCHANGED <<db, store, pc, existing, nfail>>

\* Concurrent POST /seed requests whose store operations may raise, with
\* every other route; /test and /search take one input each here, and all
\* of them under SpecSeq.
Next ==
  \/ \E p \in Procs :
       \/ seed_content(p)
       \/ seed_content_find(p)
       \/ seed_content_insert(p)
       \/ seed_content_raises(p)
       \/ seed_content_insert_raises(p)
  \/ GetRoot
  \/ GetSchema
  \/ GetTest({0})
  \/ GetSectors
  \/ GetSectorDetail
  \/ PostSearch({"copilot"})

Spec == Init /\ [][Next]_vars

OthersIdle(p) == \A o \in Procs \ {p} : pc[o].stage = "idle"

\* POST /seed requests one after the other, no store operation of theirs
\* raising, with every other route on every input
NextSeq ==
  \/ \E p \in Procs :
       /\ OthersIdle(p)
       /\ \/ seed_content(p)
          \/ seed_content_find(p)
          \/ seed_content_insert(p)
  \/ GetRoot
  \/ GetSchema
  \/ GetTest(0..MaxOther)
  \/ GetSectors
  \/ GetSectorDetail
  \/ PostSearch(Queries)

SpecSeq == Init /\ [][NextSeq]_vars

(* ------------------------------- claims ------------------------------- *)

\* a document without the _id the store gave it
StripId(d) == [f \in DOMAIN d \ {"_id"} |-> d[f]]

\* the collection holds exactly the records, once each, in their order
HoldsExactly(coll, records) ==
  /\ Len(coll) = Len(records)
  /\ \A j \in 1..Len(records) : StripId(coll[j]) = records[j]

\* 5 sectors, 10 tools and 5 comparisons: the fixed record sets
SeededExactly(st) ==
  /\ Len(st["sector"]) = 5 /\ HoldsExactly(st["sector"], SeedSectors)
  /\ Len(st["tool"]) = 10 /\ HoldsExactly(st["tool"], SeedTools)
  /\ Len(st["comparison"]) = 5 /\ HoldsExactly(st["comparison"], SeedComparisons)

\* a response to the route is sent in this step
Answered(op) == resp'.op = op /\ (resp.op # op \/ resp' # resp)

\* the request p stands at the find of collection i
FindsAt(p, i) ==
  \/ i = 1 /\ pc[p].stage = "idle" /\ db
  \/ pc[p] = [stage |-> "find", c |-> i]

\* the request p stands at the insert loop of collection i
InsertsAt(p, i) == pc[p] = [stage |-> "insert", c |-> i]

\* the request p ends in this step on a store operation that raised
RaisedReturn(p) ==
  pc'[p].stage = "idle" /\ resp'.op = "seed" /\ resp'.raises /\ resp'.arg = p

\* the request p completes a step of seed_content in which nothing raised
Steps(p) == pc'[p] # pc[p] /\ ~RaisedReturn(p)

\* the request p returns {"status": "ok"}
ReturnsOk(p) ==
  /\ pc[p].stage # "idle" /\ pc'[p].stage = "idle"
  /\ resp'.op = "seed" /\ resp'.arg = p /\ resp'.r.status = 200

\* C1: from an empty store, every POST /seed request of a sequential run
\* without store failure (the first, the second, the n-th) returns with the
\* store holding exactly 5 sectors, 10 tools and 5 comparisons, and a store
\* that holds them keeps holding exactly them: the contents after n >= 1
\* calls are the contents after the first.
C1_SequentialSeedIdempotent ==
  [][ /\ \A p \in Procs : ReturnsOk(p) => SeededExactly(store')
      /\ SeededExactly(store) => store' = store ]_vars

\* a second request stands at its last find, having found sectors and tools
\* in place, in a store holding exactly the fixed record sets
C1_Witness ==
  /\ SeededExactly(store)
  /\ \E p \in Procs : pc[p] = [stage |-> "find", c |-> 3]

\* coll2 is coll followed by the records, one new document each
ExtendedBy(coll2, coll, records) ==
  /\ Len(coll2) = Len(coll) + Len(records)
  /\ SubSeq(coll2, 1, Len(coll)) = coll
  /\ \A j \in 1..Len(records) : StripId(coll2[Len(coll) + j]) = records[j]

\* C2: seed_content decides per collection: its find of a collection changes
\* nothing, leads to that collection's insert loop exactly when the
\* collection holds zero documents at that moment and past it otherwise; the
\* loop adds the collection's fixed record set (5, 10 or 5 records) and a
\* request changes a collection in no other step, whatever the other two
\* collections hold.
C2_PerCollectionDecision ==
  [][ \A p \in Procs : \A i \in 1..Len(Collections) :
        LET c == Collections[i]
        IN  /\ (FindsAt(p, i) /\ Steps(p)) =>
                 /\ store' = store
                 /\ InsertsAt(p, i)' <=> store[c] = <<>>
            /\ (InsertsAt(p, i) /\ Steps(p)) =>
                 /\ existing[p] = <<>>
                 /\ ExtendedBy(store'[c], store[c], SeedRecords(c))
                 /\ Len(SeedRecords(c)) = <<5, 10, 5>>[i]
                 /\ \A o \in DOMAIN store \ {c} : store'[o] = store[o] ]_vars

\* tools and comparisons were seeded in full beside a sector collection that
\* an interrupted loop left with two documents
C2_Witness ==
  /\ Len(store["sector"]) = 2
  /\ HoldsExactly(store["tool"], SeedTools)
  /\ HoldsExactly(store["comparison"], SeedComparisons)

\* the number of documents of the collection that are copies of the record
Copies(coll, record) == Cardinality({j \in 1..Len(coll) : StripId(coll[j]) = record})

\* C3: the find and the insert loop are separate steps, so a request that
\* found zero documents runs its loop on a collection another request has
\* filled since: every record gains one more copy, and the collection ends
\* with duplicates.
C3_RaceInsertsDuplicates ==
  [][ \A p \in Procs : \A i \in 1..Len(Collections) :
        LET c == Collections[i]
        IN  (InsertsAt(p, i) /\ Steps(p) /\ store[c] # <<>>) =>
              /\ \A j \in 1..Len(SeedRecords(c)) :
                   Copies(store'[c], SeedRecords(c)[j]) = Copies(store[c], SeedRecords(c)[j]) + 1
              /\ \E j \in 1..Len(SeedRecords(c)) :
                   Copies(store'[c], SeedRecords(c)[j]) >= 2 ]_vars

\* both requests found zero sectors and both inserted: 10 sectors, two per
\* slug, and two comparisons for one sector_slug
C3_Witness ==
  /\ \A p \in Procs : pc[p].stage = "idle"
  /\ Len(store["sector"]) = 10
  /\ \A j \in 1..Len(SeedSectors) : Copies(store["sector"], SeedSectors[j]) = 2
  /\ Cardinality({j \in 1..Len(store["comparison"]) :
                    store["comparison"][j].sector_slug = "engineering"}) = 2

\* the positions of the collection's documents whose field has the value
Positions(coll, field, value) == {j \in 1..Len(coll) : coll[j][field] = value}

\* the least of a non-empty set of positions
Least(S) == CHOOSE j \in S : \A x \in S : j <= x

\* the k-th position of the set, in increasing order
Kth(S, k) == CHOOSE j \in S : Cardinality({x \in S : x < j}) = k - 1

\* C4: with a configured store that answers, GET /sectors/{slug} is 404
\* exactly when no sector document has the slug, whatever tools or
\* comparisons carry it; otherwise it is 200 with the sector, the tools whose
\* sector_slug is the slug and no other, in store order, and the first
\* comparison whose sector_slug is the slug, or null when none has it.
C4_SectorDetail ==
  [][ (Answered("sector_detail") /\ db /\ ~resp'.raises) =>
        LET slug == resp'.arg
            r == resp'.r
            S == Positions(store["sector"], "slug", slug)
            T == Positions(store["tool"], "sector_slug", slug)
            K == Positions(store["comparison"], "sector_slug", slug)
        IN  /\ r.status \in {200, 404}
            /\ r.status = 404 <=> S = {}
            /\ r.status = 200 =>
                 /\ r.body.sector = SectorShape(store["sector"][Least(S)])
                 /\ Len(r.body.tools) = Cardinality(T)
                 /\ \A k \in 1..Len(r.body.tools) :
                      r.body.tools[k] = ToolDetailShape(store["tool"][Kth(T, k)])
                 /\ r.body.comparison =
                      IF K = {} THEN None
                      ELSE ComparisonShape(store["comparison"][Least(K)]) ]_vars

\* a slug no sector has is answered 404 while tools and a comparison carry it
C4_Witness ==
  /\ db /\ resp.op = "sector_detail" /\ ~resp.raises
  /\ resp.r.status = 404
  /\ resp.r = sector_detail(db, store, resp.arg, FALSE)
  /\ Positions(store["tool"], "sector_slug", resp.arg) # {}
  /\ Positions(store["comparison"], "sector_slug", resp.arg) # {}

\* C5: without a store handle no request ever performs a store operation:
\* the collections stay as they were and no POST /seed gets past its first
\* test; GET /sectors answers the empty list, POST /search the empty result
\* list, POST /seed and GET /sectors/{slug} (for any slug) answer 500.
C5_UnconfiguredStore ==
  ~db =>
    /\ store = EmptyStore
    /\ \A p \in Procs : pc[p] = Idle
    /\ resp.r.store_ops = 0
    /\ resp.op = "sectors" => (resp.r.status = 200 /\ resp.r.body = <<>>)
    /\ resp.op = "search" => (resp.r.status = 200 /\ resp.r.body = [results |-> <<>>])
    /\ resp.op = "seed" => resp.r.status = 500
    /\ resp.op = "sector_detail" => resp.r.status = 500

\* GET /sectors/does-not-exist without a store handle: 500, not 404, and the
\* store, set to raise, was not called
C5_Witness ==
  /\ ~db /\ resp.op = "sector_detail" /\ resp.arg = "does-not-exist"
  /\ resp.raises /\ resp.r.status = 500

\* C6: GET /test and POST /search answer a normal payload when a store
\* operation of theirs raises: a status payload, an empty result list.
C6_DiagnosticsSwallowStoreErrors ==
  (db /\ resp.raises) =>
    /\ resp.op = "test" => resp.r.status = 200
    /\ resp.op = "search" => (resp.r.status = 200 /\ resp.r.body = [results |-> <<>>])

\* C7: GET /test answers 200 in every store state; without a store handle
\* its database field reads "Available but not initialized" and it is not
\* connected; when the listing raises the error is reported in the payload;
\* otherwise collections are the first 10 of the store's collection names,
\* all of them when there are fewer.
C7_TestNeverFails ==
  [][ Answered("test") =>
        LET r == resp'.r
            names == list_collection_names(store, resp'.arg)
        IN  /\ r.status = 200
            /\ Len(r.body.collections) <= 10
            /\ ~db => /\ r.body.database = "Available but not initialized"
                      /\ r.body.connection_status = "Not Connected"
                      /\ r.body.collections = <<>>
            /\ (db /\ resp'.raises) => /\ r.body.database = "Connected but Error"
                                       /\ r.body.collections = <<>>
            /\ (db /\ ~resp'.raises) =>
                 /\ r.body.database = "Connected & Working"
                 /\ Len(r.body.collections) = IF Len(names) < 10 THEN Len(names) ELSE 10
                 /\ \A i \in 1..Len(r.body.collections) : r.body.collections[i] = names[i] ]_vars

\* the store has more than 10 collections and /test lists 10 of them
C7_Witness ==
  /\ db /\ resp.op = "test" /\ ~resp.raises
  /\ Len(list_collection_names(store, resp.arg)) > 10
  /\ Len(resp.r.body.collections) = 10

\* the tool's name, summary or sector_slug holds q, ignoring case
HoldsQuery(q, t) ==
  \/ SubstringIgnoreCase(q, t.name)
  \/ SubstringIgnoreCase(q, t.summary)
  \/ SubstringIgnoreCase(q, t.sector_slug)

\* C8: with a configured store that answers, POST /search returns exactly
\* the tools whose name, summary or sector_slug holds q as a substring,
\* ignoring case, for every q, pattern metacharacters included.
C8_SearchIsSubstringMatch ==
  [][ (Answered("search") /\ db /\ ~resp'.raises) =>
        LET hits == SelectSeq(store["tool"], LAMBDA t : HoldsQuery(resp'.arg, t))
        IN  /\ resp'.r.status = 200
            /\ resp'.r.body = [results |-> [i \in 1..Len(hits) |-> ToolSummaryShape(hits[i])]] ]_vars

\* C9: every document stays where it is, unchanged, in every step; only the
\* insert loop of a POST /seed request changes a collection, and it only
\* appends; the other six handlers leave the store as it is.
C9_AppendOnly ==
  [][ /\ \A c \in DOMAIN store :
           /\ Len(store'[c]) >= Len(store[c])
           /\ SubSeq(store'[c], 1, Len(store[c])) = store[c]
      /\ store' # store =>
           \E p \in Procs : pc[p].stage = "insert" /\ pc'[p] # pc[p]
      /\ \A op \in {"root", "schema", "test", "sectors", "sector_detail", "search"} :
           Answered(op) => store' = store ]_vars

\* a second insert loop ran on the sectors and a search was answered: the
\* first five documents are still the ones first inserted
C9_Witness ==
  /\ resp.op = "search"
  /\ Len(store["sector"]) = 10
  /\ HoldsExactly(SubSeq(store["sector"], 1, 5), SeedSectors)

\* C10: when a create_document raises part-way through a loop the request
\* ends in 500, the documents inserted so far stay and no other collection
\* is touched by that step; from then on no request enters the loop of a
\* collection that holds a document, such a collection changes only by
\* loops entered before, and one that is not exactly its fixed record set
\* never becomes it.
C10_PartialSeedSticks ==
  [][ \A p \in Procs : \A i \in 1..Len(Collections) :
        LET c == Collections[i]
            records == SeedRecords(c)
        IN  /\ (InsertsAt(p, i) /\ RaisedReturn(p)) =>
                 /\ \E k \in 0..(Len(records) - 1) :
                      ExtendedBy(store'[c], store[c], SubSeq(records, 1, k))
                 /\ \A o \in DOMAIN store \ {c} : store'[o] = store[o]
                 /\ resp'.r.status = 500
            /\ store[c] # <<>> =>
                 /\ InsertsAt(p, i)' => InsertsAt(p, i)
                 /\ (\A q \in Procs : ~InsertsAt(q, i)) => store'[c] = store[c]
                 /\ ~HoldsExactly(store[c], records) => ~HoldsExactly(store'[c], records) ]_vars

\* a loop left two tools behind and a later request returned ok with the
\* tools still two
C10_Witness ==
  /\ \A p \in Procs : pc[p].stage = "idle"
  /\ nfail >= 1
  /\ Len(store["tool"]) = 2
  /\ HoldsExactly(store["sector"], SeedSectors)
  /\ HoldsExactly(store["comparison"], SeedComparisons)
  /\ resp.op = "seed" /\ resp.r.status = 200

====
